---- MODULE Spec2Model ----
(***************************************************************************)
(* A model of the role-synchronisation updater of OriannaBot               *)
(* (backend/src/discord/updater.ts).                                       *)
(*                                                                         *)
(* One fetchAndUpdateAll call is a "run".  JavaScript runs a continuation  *)
(* to its next `await` without interruption, so every action below is one  *)
(* awaited call taking effect together with the code that follows it up to *)
(* the next await.  Calls that are not awaited (role add / remove, the     *)
(* transfer notification, announcePromotion) are issued by the action that *)
(* reaches them and settle later in actions of their own.                  *)
(***************************************************************************)
EXTENDS Integers, Sequences, FiniteSets, TLC

----------------------------------------------------------------------------
(* Bounds of the model *)

MaxPoints == 2
MaxLevel == 2
MaxGames == 2

Runs == {1, 2}
Accounts == {1, 2}
Champions == {1, 2}
Queues == {"RANKED_SOLO_5x5", "RANKED_FLEX_SR"}
Guilds == {"g1", "g2"}
RoleIds == {"A", "B", "C"}

(* config.riot.tiers *)
TierList ==
    <<"IRON", "BRONZE", "SILVER", "GOLD", "PLATINUM", "DIAMOND", "MASTER",
      "GRANDMASTER", "CHALLENGER">>

(* The tiers the league endpoint is made to report in the model: three of  *)
(* the configured ones and one that the configured list does not hold.     *)
ReportedTiers == {"IRON", "SILVER", "GOLD", "UNRANKED"}

----------------------------------------------------------------------------
VARIABLES
    (* the game-data service *)
    worldName,      \* account -> current summoner name, or "gone"
    mastery,        \* account -> set of ChampionMasteryInfo
    league,         \* account -> set of LeagueEntry
    games,          \* account -> [champion -> number of ranked games listed]
    changed,        \* the game data has moved on since the initial state
    (* the persistence layer *)
    dbAccounts,     \* LeagueAccount rows of the user
    dbStats,        \* UserChampionStat rows of the user
    dbRanks,        \* UserRank rows of the user
    nextId,         \* next primary key
    (* the runs *)
    mode,           \* how fetchAndUpdateAll was called
    pc,             \* position of the body of fetchAndUpdateAll
    mpc,            \* position of fetchMasteryScores
    rpc,            \* position of fetchRanked
    gpc,            \* position of updateUserOnGuild, per guild
    outcome,        \* how the call ended for its caller
    user,           \* the User instance the run works on
    loc,            \* local variables of the stages
    hist,           \* what the run did (observation only)
    (* the chat platform *)
    inGuild,        \* guilds whose member cache holds the user
    registered,     \* guilds that have a Server row
    serverRoles,    \* guild -> role snowflakes of the Server row
    guildRoles,     \* guild -> roles that exist in the guild
    memberRoles,    \* guild -> roles the member holds
    passes,         \* roles whose test(user) is true
    announceOn,     \* roles with announce set
    channel,        \* guild -> announcement channel of the Server row: "none"
                    \*   (not configured), "gone" (not in the guild any more),
                    \*   "voice" (not a text channel), "text"
    issued,         \* role operations requested so far
    pending,        \* role operations not yet settled
    ann,            \* announcePromotion calls and their positions
    notified        \* account -> transfer notifications: attempted, in flight, failed

worldVars == <<worldName, mastery, league, games, changed>>
dbVars == <<dbAccounts, dbStats, dbRanks, nextId>>
runVars == <<mode, pc, mpc, rpc, gpc, outcome, user, loc, hist>>
configVars == <<inGuild, registered, serverRoles, guildRoles, passes, announceOn, channel>>
chatVars == <<memberRoles, issued, pending, ann>>
vars == <<worldVars, dbVars, runVars, configVars, chatVars, notified>>

----------------------------------------------------------------------------
(* Helpers *)

Min(S) == CHOOSE x \in S : \A y \in S : x <= y

RECURSIVE SeqOfIds(_, _)
(* The rows of a relation query, ordered by primary key. *)
SeqOfIds(rows, ids) ==
    IF ids = {} THEN <<>>
    ELSE LET i == Min(ids)
         IN <<CHOOSE x \in rows : x.id = i>> \o SeqOfIds(rows, ids \ {i})

RowSeq(rows) == SeqOfIds(rows, {x.id : x \in rows})

EmptyMap == [k \in {} |-> 0]

(* Array.prototype.indexOf on config.riot.tiers: 0-based, -1 when absent *)
TierIndexOf(t) ==
    IF \E i \in 1..Len(TierList) : TierList[i] = t
    THEN (CHOOSE i \in 1..Len(TierList) : TierList[i] = t) - 1
    ELSE -1

(* config.riot.tiers[i] *)
TierAt(i) == TierList[i + 1]

(* user.stats.find(x => x.champion_id === champion): the first match *)
FindStat(stats, champion) ==
    LET hits == {x \in stats : x.champion_id = champion}
    IN  IF hits = {} THEN {} ELSE {CHOOSE x \in hits : \A y \in hits : x.id <= y.id}

----------------------------------------------------------------------------
(* The merges of the fetch stages, folded account by account as the code   *)
(* does.                                                                   *)

(* Mutant: the entry of the account read last replaces the merged one.     *)
AddMasteriesLastWins(scores, masteries) ==
    [c \in DOMAIN scores \cup {m.championId : m \in masteries} |->
        IF \E m \in masteries : m.championId = c
        THEN LET m == CHOOSE x \in masteries : x.championId = c
             IN  [score |-> m.championPoints, level |-> m.championLevel]
        ELSE scores[c]]

(* fetchMasteryScores: scores after one account's masteries *)
AddMasteries(scores, masteries) ==
    [c \in DOMAIN scores \cup {m.championId : m \in masteries} |->
        IF \E m \in masteries : m.championId = c
        THEN LET m == CHOOSE x \in masteries : x.championId = c
                 old == IF c \in DOMAIN scores THEN scores[c]
                        ELSE [score |-> 0, level |-> 0]
             IN  [score |-> old.score + m.championPoints,
                  level |-> IF old.level > m.championLevel THEN old.level
                            ELSE m.championLevel]
        ELSE scores[c]]

(* fetchRanked: tiers after one account's league positions *)
AddLeagues(tiers, results) ==
    [q \in DOMAIN tiers \cup {e.queueType : e \in results} |->
        IF \E e \in results : e.queueType = q
        THEN LET e == CHOOSE x \in results : x.queueType = q
                 old == IF q \in DOMAIN tiers /\ tiers[q] # 0 THEN tiers[q] ELSE 0
                 val == TierIndexOf(e.tier)
             IN  IF old > val THEN old ELSE val
        ELSE tiers[q]]

(* fetchGamesPlayed: the tally after one account's game list *)
AddGames(gamesPlayed, list) ==
    [c \in DOMAIN gamesPlayed \cup {k \in Champions : list[k] > 0} |->
        (IF c \in DOMAIN gamesPlayed THEN gamesPlayed[c] ELSE 0) + list[c]]

(* Mutant: every tallied champion is written, changed or not.              *)
GamesToWriteAll(gamesPlayed, stats) == DOMAIN gamesPlayed

(* fetchGamesPlayed: the champions whose row is written (incremental = false) *)
GamesToWrite(gamesPlayed, stats) ==
    {c \in DOMAIN gamesPlayed :
        ~(\E old \in FindStat(stats, c) : old.games_played = gamesPlayed[c])}

(* Mutant: every merged champion is replaced, changed or not.              *)
MasteryToWriteAll(scores, stats) == DOMAIN scores

(* fetchMasteryScores: the champions whose row is replaced *)
MasteryToWrite(scores, stats) ==
    {c \in DOMAIN scores :
        ~(\E old \in FindStat(stats, c) :
              scores[c].level = old.level /\ scores[c].score = old.score)}

----------------------------------------------------------------------------
(* Positions.  The body of fetchAndUpdateAll (pc):                         *)
(*   idle, lookup, accLoad, accQuery, accDelete, accUpdate, gpLoad,        *)
(*   gpQuery, gpWrite, gpRefetch, par (awaiting Promise.all of the two     *)
(*   parallel stages), upd (awaiting updateUser), returned.                *)
(* fetchMasteryScores (mpc): new, query, delete, insert, refetch, done,    *)
(* failed.  fetchRanked (rpc): new, query, delete, insert, done, failed.   *)

AccPcs == {"accLoad", "accQuery", "accDelete", "accUpdate"}
GpPcs == {"gpLoad", "gpQuery", "gpWrite", "gpRefetch"}
MAwaiting == {"query", "delete", "insert", "refetch"}
RAwaiting == {"query", "delete", "insert"}

NoUser ==
    [accounts |-> <<>>, hasAccounts |-> FALSE, stats |-> {}, hasStats |-> FALSE,
     ranks |-> {}, hasRanks |-> FALSE]

NoLoc ==
    [i |-> 1, gamesPlayed |-> EmptyMap, gtodo |-> {},
     mi |-> 1, scores |-> EmptyMap, mtodo |-> {},
     ri |-> 1, tiers |-> EmptyMap, rtodo |-> {}]

NoNotice == [attempts |-> 0, pending |-> 0, failed |-> 0]

NoHist ==
    [started |-> {}, done |-> {}, queried |-> {}, deleted |-> {}, renamed |-> {},
     gWrites |-> 0, mWrites |-> 0, rWrites |-> 0,
     raised |-> 0, reported |-> 0, failedAt |-> {}, opsAfterFail |-> {},
     refused |-> {},
     userHas |-> [g \in Guilds |-> {}],
     overlapped |-> FALSE]

(* A run has nothing left to execute. *)
Finished(r) ==
    /\ pc[r] = "returned"
    /\ mpc[r] \in {"new", "done", "failed"}
    /\ rpc[r] \in {"new", "done", "failed"}
    /\ \A g \in Guilds : gpc[r][g] \in {"none", "done", "failed"}

Active(r) == pc[r] # "idle" /\ ~Finished(r)

(* fetchGamesPlayed, lines 215-227: the first await it reaches *)
GpAfterLoad(u) == IF Len(u.accounts) = 0 THEN "gpRefetch" ELSE "gpQuery"
GpEntry(u) == IF ~u.hasStats THEN "gpLoad" ELSE GpAfterLoad(u)

(* fetchAccounts, lines 261-268: the first await it reaches once the       *)
(* accounts are loaded; with no account it returns and fetchGamesPlayed    *)
(* starts.                                                                 *)
AccEntry(u) == IF Len(u.accounts) = 0 THEN GpEntry(u) ELSE "accQuery"

(* fetchAccounts, line 268: the next account of the copy, or the end *)
AccAdvance(u, i) == IF i < Len(u.accounts) THEN "accQuery" ELSE GpEntry(u)

(* fetchMasteryScores / fetchRanked: the first await they reach *)
MEntry(u) == IF Len(u.accounts) = 0 THEN "refetch" ELSE "query"
REntry(u) == IF Len(u.accounts) = 0 THEN "delete" ELSE "query"

(* fetchMasteryScores, lines 160-173: the await the write loop stops at *)
MNext(todo, stats) ==
    IF todo = {} THEN "refetch"
    ELSE IF FindStat(stats, Min(todo)) # {} THEN "delete" ELSE "insert"

(* user.accounts.slice(user.accounts.indexOf(account), 1) (line 276):      *)
(* slice returns a new array and leaves the one it is called on as it is.  *)
AccountsAfterSlice(accounts, i) == accounts

(* The stages the body has begun and completed once it stands at p. *)
MarkMain(h, p) ==
    [h EXCEPT
       !.started = @ \cup (IF p \in AccPcs THEN {"accounts"}
                           ELSE IF p \in GpPcs THEN {"accounts", "games"}
                           ELSE {}),
       !.done = @ \cup (IF p \in GpPcs THEN {"accounts"} ELSE {})]

----------------------------------------------------------------------------
(* fetchAndUpdateAll, lines 41-52 *)

(* The call.  m = "record": a User instance whose relations are not loaded *)
(* yet; m = "snowflake": the id of a stored user; m = "unknown": an id no  *)
(* User row has.                                                           *)
Start(r, m) ==
    /\ pc[r] = "idle"
    /\ mode' = [mode EXCEPT ![r] = m]
    /\ pc' = [pc EXCEPT ![r] = IF m = "record" THEN "accLoad" ELSE "lookup"]
    /\ hist' = [hist EXCEPT ![r] =
                  [(IF m = "record" THEN MarkMain(@, "accLoad") ELSE @)
                     EXCEPT !.overlapped = \E o \in Runs \ {r} : Active(o)]]
    /\ UNCHANGED <<worldVars, dbVars, mpc, rpc, gpc, outcome, user, loc,
                   configVars, chatVars, notified>>

(* The User query with eager accounts, stats and ranks answers. *)
Lookup(r) ==
    /\ pc[r] = "lookup"
    /\ IF mode[r] = "unknown"
       THEN /\ pc' = [pc EXCEPT ![r] = "returned"]
            /\ outcome' = [outcome EXCEPT ![r] = "propagated"]
            /\ hist' = [hist EXCEPT ![r].raised = @ + 1,
                                    ![r].failedAt = @ \cup {"lookup"}]
            /\ UNCHANGED user
       ELSE LET u == [accounts |-> RowSeq(dbAccounts), hasAccounts |-> TRUE,
                      stats |-> dbStats, hasStats |-> TRUE,
                      ranks |-> dbRanks, hasRanks |-> TRUE]
            IN  /\ user' = [user EXCEPT ![r] = u]
                /\ pc' = [pc EXCEPT ![r] = AccEntry(u)]
                /\ hist' = [hist EXCEPT ![r] =
                              MarkMain(MarkMain(@, "accLoad"), AccEntry(u))]
                /\ UNCHANGED outcome
    /\ UNCHANGED <<worldVars, dbVars, mode, mpc, rpc, gpc, loc,
                   configVars, chatVars, notified>>

----------------------------------------------------------------------------
(* fetchAccounts, lines 260-293 *)

AccLoad(r) ==
    /\ pc[r] = "accLoad"
    /\ LET u == [user[r] EXCEPT !.accounts = RowSeq(dbAccounts),
                                !.hasAccounts = TRUE]
       IN  /\ user' = [user EXCEPT ![r] = u]
           /\ pc' = [pc EXCEPT ![r] = AccEntry(u)]
           /\ hist' = [hist EXCEPT ![r] = MarkMain(@, AccEntry(u))]
    /\ UNCHANGED <<worldVars, dbVars, mode, mpc, rpc, gpc, outcome, loc,
                   configVars, chatVars, notified>>

(* getSummonerById answers for the account at loc.i *)
AccQuery(r) ==
    /\ pc[r] = "accQuery"
    /\ LET i == loc[r].i
           account == user[r].accounts[i]
           name == worldName[account.id]
           h == [hist[r] EXCEPT !.queried = @ \cup {<<"accounts", account.id>>}]
       IN  IF name = "gone"
           THEN /\ pc' = [pc EXCEPT ![r] = "accDelete"]
                /\ hist' = [hist EXCEPT ![r] = h]
                /\ UNCHANGED <<user, loc>>
           ELSE IF name # account.username
           THEN /\ user' = [user EXCEPT ![r].accounts[i].username = name]
                /\ pc' = [pc EXCEPT ![r] = "accUpdate"]
                /\ hist' = [hist EXCEPT ![r] = h]
                /\ UNCHANGED loc
           ELSE /\ pc' = [pc EXCEPT ![r] = AccAdvance(user[r], i)]
                /\ loc' = [loc EXCEPT ![r].i = IF i < Len(user[r].accounts)
                                               THEN i + 1 ELSE 1]
                /\ hist' = [hist EXCEPT ![r] = MarkMain(h, AccAdvance(user[r], i))]
                /\ UNCHANGED user
    /\ UNCHANGED <<worldVars, dbVars, mode, mpc, rpc, gpc, outcome,
                   configVars, chatVars, notified>>

(* Mutant: the account is unlinked without a word to the user.             *)
AccDeleteSilent(r) ==
    /\ pc[r] = "accDelete"
    /\ LET i == loc[r].i
           account == user[r].accounts[i]
           u == [user[r] EXCEPT !.accounts = AccountsAfterSlice(@, i)]
       IN  /\ dbAccounts' = {x \in dbAccounts : x.id # account.id}
           /\ user' = [user EXCEPT ![r] = u]
           /\ pc' = [pc EXCEPT ![r] = AccAdvance(user[r], i)]
           /\ loc' = [loc EXCEPT ![r].i = IF i < Len(user[r].accounts)
                                          THEN i + 1 ELSE 1]
           /\ hist' = [hist EXCEPT ![r] =
                         MarkMain([@ EXCEPT !.deleted = @ \cup {account.id}],
                                  AccAdvance(user[r], i))]
    /\ UNCHANGED <<worldVars, dbStats, dbRanks, nextId, mode, mpc, rpc, gpc,
                   outcome, configVars, chatVars, notified>>

(* account.$query().delete() answers; the slice and the notification follow *)
AccDelete(r) ==
    /\ pc[r] = "accDelete"
    /\ LET i == loc[r].i
           account == user[r].accounts[i]
           u == [user[r] EXCEPT !.accounts = AccountsAfterSlice(@, i)]
       IN  /\ dbAccounts' = {x \in dbAccounts : x.id # account.id}
           /\ user' = [user EXCEPT ![r] = u]
           /\ notified' = [notified EXCEPT ![account.id].attempts = @ + 1,
                                         ![account.id].pending = @ + 1]
           /\ pc' = [pc EXCEPT ![r] = AccAdvance(user[r], i)]
           /\ loc' = [loc EXCEPT ![r].i = IF i < Len(user[r].accounts)
                                          THEN i + 1 ELSE 1]
           /\ hist' = [hist EXCEPT ![r] =
                         MarkMain([@ EXCEPT !.deleted = @ \cup {account.id}],
                                  AccAdvance(user[r], i))]
    /\ UNCHANGED <<worldVars, dbStats, dbRanks, nextId, mode, mpc, rpc, gpc,
                   outcome, configVars, chatVars>>

(* client.notify (line 279) is not awaited: the direct message is          *)
(* delivered or refused later, and nothing hears of a refusal.             *)
NotifySettle(a, ok) ==
    /\ notified[a].pending > 0
    /\ notified' = [notified EXCEPT ![a].pending = @ - 1,
                                    ![a].failed = IF ok THEN @ ELSE @ + 1]
    /\ UNCHANGED <<worldVars, dbVars, runVars, configVars, chatVars>>

(* Mutant: the update leaves the stored username as it was.               *)
AccUpdateKeepsName(r) ==
    /\ pc[r] = "accUpdate"
    /\ LET i == loc[r].i
           account == user[r].accounts[i]
       IN  /\ dbAccounts' = dbAccounts
           /\ pc' = [pc EXCEPT ![r] = AccAdvance(user[r], i)]
           /\ loc' = [loc EXCEPT ![r].i = IF i < Len(user[r].accounts)
                                          THEN i + 1 ELSE 1]
           /\ hist' = [hist EXCEPT ![r] =
                         MarkMain([@ EXCEPT !.renamed = @ \cup {account.id}],
                                  AccAdvance(user[r], i))]
    /\ UNCHANGED <<worldVars, dbStats, dbRanks, nextId, mode, mpc, rpc, gpc,
                   outcome, user, configVars, chatVars, notified>>

(* account.$query().update({ username }) answers *)
AccUpdate(r) ==
    /\ pc[r] = "accUpdate"
    /\ LET i == loc[r].i
           account == user[r].accounts[i]
       IN  /\ dbAccounts' = {IF x.id = account.id
                             THEN [x EXCEPT !.username = account.username]
                             ELSE x : x \in dbAccounts}
           /\ pc' = [pc EXCEPT ![r] = AccAdvance(user[r], i)]
           /\ loc' = [loc EXCEPT ![r].i = IF i < Len(user[r].accounts)
                                          THEN i + 1 ELSE 1]
           /\ hist' = [hist EXCEPT ![r] =
                         MarkMain([@ EXCEPT !.renamed = @ \cup {account.id}],
                                  AccAdvance(user[r], i))]
    /\ UNCHANGED <<worldVars, dbStats, dbRanks, nextId, mode, mpc, rpc, gpc,
                   outcome, user, configVars, chatVars, notified>>

----------------------------------------------------------------------------
(* fetchGamesPlayed, lines 214-254 *)

GpLoad(r) ==
    /\ pc[r] = "gpLoad"
    /\ LET u == [user[r] EXCEPT !.stats = dbStats, !.hasStats = TRUE]
       IN  /\ user' = [user EXCEPT ![r] = u]
           /\ pc' = [pc EXCEPT ![r] = GpAfterLoad(u)]
    /\ UNCHANGED <<worldVars, dbVars, mode, mpc, rpc, gpc, outcome, loc, hist,
                   configVars, chatVars, notified>>

(* findRankedGamesAfter answers for the account at loc.i; after the last   *)
(* account the write loop runs to its first write.                         *)
GpQuery(r) ==
    /\ pc[r] = "gpQuery"
    /\ LET i == loc[r].i
           account == user[r].accounts[i]
           tally == AddGames(loc[r].gamesPlayed, games[account.id])
           todo == GamesToWrite(tally, user[r].stats)
       IN  /\ hist' = [hist EXCEPT ![r].queried = @ \cup {<<"games", account.id>>}]
           /\ IF i < Len(user[r].accounts)
              THEN /\ loc' = [loc EXCEPT ![r].gamesPlayed = tally, ![r].i = i + 1]
                   /\ UNCHANGED pc
              ELSE /\ loc' = [loc EXCEPT ![r].gamesPlayed = tally, ![r].i = 1,
                                         ![r].gtodo = todo]
                   /\ pc' = [pc EXCEPT ![r] = IF todo = {} THEN "gpRefetch"
                                              ELSE "gpWrite"]
    /\ UNCHANGED <<worldVars, dbVars, mode, mpc, rpc, gpc, outcome, user,
                   configVars, chatVars, notified>>

(* The insert (line 239) or the update by primary key (line 246) answers. *)
GpWrite(r) ==
    /\ pc[r] = "gpWrite"
    /\ LET c == Min(loc[r].gtodo)
           old == FindStat(user[r].stats, c)
           n == loc[r].gamesPlayed[c]
           rest == loc[r].gtodo \ {c}
       IN  /\ IF old = {}
              THEN /\ dbStats' = dbStats \cup
                         {[id |-> nextId, champion_id |-> c, level |-> 0,
                           score |-> 0, games_played |-> n]}
                   /\ nextId' = nextId + 1
              ELSE /\ dbStats' = {IF x.id \in {o.id : o \in old}
                                  THEN [x EXCEPT !.games_played = n]
                                  ELSE x : x \in dbStats}
                   /\ UNCHANGED nextId
           /\ loc' = [loc EXCEPT ![r].gtodo = rest]
           /\ pc' = [pc EXCEPT ![r] = IF rest = {} THEN "gpRefetch" ELSE "gpWrite"]
           /\ hist' = [hist EXCEPT ![r].gWrites = @ + 1]
    /\ UNCHANGED <<worldVars, dbAccounts, dbRanks, mode, mpc, rpc, gpc, outcome,
                   user, configVars, chatVars, notified>>

(* The refetch of user.stats (line 253) answers; fetchAndUpdateAll goes on *)
(* to Promise.all (line 60), which starts both parallel stages.            *)
GpRefetch(r) ==
    /\ pc[r] = "gpRefetch"
    /\ LET u == [user[r] EXCEPT !.stats = dbStats]
       IN  /\ user' = [user EXCEPT ![r] = u]
           /\ mpc' = [mpc EXCEPT ![r] = MEntry(u)]
           /\ rpc' = [rpc EXCEPT ![r] = REntry(u)]
    /\ pc' = [pc EXCEPT ![r] = "par"]
    /\ hist' = [hist EXCEPT ![r].done = @ \cup {"games"},
                            ![r].started = @ \cup {"mastery", "ranked"}]
    /\ UNCHANGED <<worldVars, dbVars, mode, gpc, outcome, loc,
                   configVars, chatVars, notified>>

----------------------------------------------------------------------------
(* fetchMasteryScores, lines 141-177 *)

(* getChampionMastery answers for the account at loc.mi *)
MQuery(r) ==
    /\ mpc[r] = "query"
    /\ LET i == loc[r].mi
           account == user[r].accounts[i]
           sc == AddMasteries(loc[r].scores, mastery[account.id])
           todo == MasteryToWrite(sc, user[r].stats)
       IN  /\ hist' = [hist EXCEPT ![r].queried = @ \cup {<<"mastery", account.id>>}]
           /\ IF i < Len(user[r].accounts)
              THEN /\ loc' = [loc EXCEPT ![r].scores = sc, ![r].mi = i + 1]
                   /\ UNCHANGED mpc
              ELSE /\ loc' = [loc EXCEPT ![r].scores = sc, ![r].mi = 1,
                                         ![r].mtodo = todo]
                   /\ mpc' = [mpc EXCEPT ![r] = MNext(todo, user[r].stats)]
    /\ UNCHANGED <<worldVars, dbVars, mode, pc, rpc, gpc, outcome, user,
                   configVars, chatVars, notified>>

(* oldScore.$query().delete() answers (line 164) *)
MDelete(r) ==
    /\ mpc[r] = "delete"
    /\ LET c == Min(loc[r].mtodo)
           old == FindStat(user[r].stats, c)
       IN  dbStats' = {x \in dbStats : x.id \notin {o.id : o \in old}}
    /\ mpc' = [mpc EXCEPT ![r] = "insert"]
    /\ hist' = [hist EXCEPT ![r].mWrites = @ + 1]
    /\ UNCHANGED <<worldVars, dbAccounts, dbRanks, nextId, mode, pc, rpc, gpc,
                   outcome, user, loc, configVars, chatVars, notified>>

(* Mutant: the inserted row starts its games_played at 0 again.            *)
MInsertResetsGames(r) ==
    /\ mpc[r] = "insert"
    /\ LET c == Min(loc[r].mtodo)
           rest == loc[r].mtodo \ {c}
       IN  /\ dbStats' = dbStats \cup
                  {[id |-> nextId, champion_id |-> c,
                    level |-> loc[r].scores[c].level,
                    score |-> loc[r].scores[c].score,
                    games_played |-> 0]}
           /\ loc' = [loc EXCEPT ![r].mtodo = rest]
           /\ mpc' = [mpc EXCEPT ![r] = MNext(rest, user[r].stats)]
    /\ nextId' = nextId + 1
    /\ hist' = [hist EXCEPT ![r].mWrites = @ + 1]
    /\ UNCHANGED <<worldVars, dbAccounts, dbRanks, mode, pc, rpc, gpc, outcome,
                   user, configVars, chatVars, notified>>

(* The insert of the merged row answers (lines 166-172) *)
MInsert(r) ==
    /\ mpc[r] = "insert"
    /\ LET c == Min(loc[r].mtodo)
           old == FindStat(user[r].stats, c)
           oldGamesPlayed == IF old = {} THEN 0
                             ELSE (CHOOSE o \in old : TRUE).games_played
           rest == loc[r].mtodo \ {c}
       IN  /\ dbStats' = dbStats \cup
                  {[id |-> nextId, champion_id |-> c,
                    level |-> loc[r].scores[c].level,
                    score |-> loc[r].scores[c].score,
                    games_played |-> oldGamesPlayed]}
           /\ loc' = [loc EXCEPT ![r].mtodo = rest]
           /\ mpc' = [mpc EXCEPT ![r] = MNext(rest, user[r].stats)]
    /\ nextId' = nextId + 1
    /\ hist' = [hist EXCEPT ![r].mWrites = @ + 1]
    /\ UNCHANGED <<worldVars, dbAccounts, dbRanks, mode, pc, rpc, gpc, outcome,
                   user, configVars, chatVars, notified>>

(* The refetch of user.stats answers (line 176) *)
MRefetch(r) ==
    /\ mpc[r] = "refetch"
    /\ user' = [user EXCEPT ![r].stats = dbStats]
    /\ mpc' = [mpc EXCEPT ![r] = "done"]
    /\ hist' = [hist EXCEPT ![r].done = @ \cup {"mastery"}]
    /\ UNCHANGED <<worldVars, dbVars, mode, pc, rpc, gpc, outcome, loc,
                   configVars, chatVars, notified>>

----------------------------------------------------------------------------
(* fetchRanked, lines 183-208 *)

(* Mutant: the old rows are deleted as soon as the first account answers. *)
RQueryDeletesFirst(r) ==
    /\ rpc[r] = "query"
    /\ LET i == loc[r].ri
           account == user[r].accounts[i]
           ts == AddLeagues(loc[r].tiers, league[account.id])
       IN  /\ hist' = [hist EXCEPT ![r].queried = @ \cup {<<"ranked", account.id>>},
                                   ![r].rWrites = @ + 1]
           /\ dbRanks' = {}
           /\ IF i < Len(user[r].accounts)
              THEN /\ loc' = [loc EXCEPT ![r].tiers = ts, ![r].ri = i + 1]
                   /\ UNCHANGED rpc
              ELSE /\ loc' = [loc EXCEPT ![r].tiers = ts, ![r].ri = 1]
                   /\ rpc' = [rpc EXCEPT ![r] = "delete"]
    /\ UNCHANGED <<worldVars, dbAccounts, dbStats, nextId, mode, pc, mpc, gpc, outcome, user,
                   configVars, chatVars, notified>>

(* getLeaguePositions answers for the account at loc.ri *)
RQuery(r) ==
    /\ rpc[r] = "query"
    /\ LET i == loc[r].ri
           account == user[r].accounts[i]
           ts == AddLeagues(loc[r].tiers, league[account.id])
       IN  /\ hist' = [hist EXCEPT ![r].queried = @ \cup {<<"ranked", account.id>>}]
           /\ IF i < Len(user[r].accounts)
              THEN /\ loc' = [loc EXCEPT ![r].tiers = ts, ![r].ri = i + 1]
                   /\ UNCHANGED rpc
              ELSE /\ loc' = [loc EXCEPT ![r].tiers = ts, ![r].ri = 1]
                   /\ rpc' = [rpc EXCEPT ![r] = "delete"]
    /\ UNCHANGED <<worldVars, dbVars, mode, pc, mpc, gpc, outcome, user,
                   configVars, chatVars, notified>>

(* Mutant: the old rows are kept and the merged ones appended.             *)
RDeleteNothing(r) ==
    /\ rpc[r] = "delete"
    /\ user' = [user EXCEPT ![r].ranks = {}, ![r].hasRanks = TRUE]
    /\ loc' = [loc EXCEPT ![r].rtodo = DOMAIN loc[r].tiers]
    /\ rpc' = [rpc EXCEPT ![r] = IF DOMAIN loc[r].tiers = {} THEN "done"
                                 ELSE "insert"]
    /\ hist' = [hist EXCEPT ![r].done = @ \cup (IF DOMAIN loc[r].tiers = {}
                                                THEN {"ranked"} ELSE {})]
    /\ UNCHANGED <<worldVars, dbVars, mode, pc, mpc, gpc,
                   outcome, configVars, chatVars, notified>>

(* The delete of all the user's UserRank rows answers (lines 200-201) *)
RDelete(r) ==
    /\ rpc[r] = "delete"
    /\ dbRanks' = {}
    /\ user' = [user EXCEPT ![r].ranks = {}, ![r].hasRanks = TRUE]
    /\ loc' = [loc EXCEPT ![r].rtodo = DOMAIN loc[r].tiers]
    /\ rpc' = [rpc EXCEPT ![r] = IF DOMAIN loc[r].tiers = {} THEN "done"
                                 ELSE "insert"]
    /\ hist' = [hist EXCEPT ![r].rWrites = @ + 1,
                            ![r].done = @ \cup (IF DOMAIN loc[r].tiers = {}
                                                THEN {"ranked"} ELSE {})]
    /\ UNCHANGED <<worldVars, dbAccounts, dbStats, nextId, mode, pc, mpc, gpc,
                   outcome, configVars, chatVars, notified>>

(* The insert of one queue's row answers (lines 202-207) *)
RInsert(r) ==
    /\ rpc[r] = "insert"
    /\ LET q == CHOOSE x \in loc[r].rtodo : TRUE
           rest == loc[r].rtodo \ {q}
       IN  /\ dbRanks' = dbRanks \cup
                  {[id |-> nextId, queue |-> q, tier |-> TierAt(loc[r].tiers[q])]}
           /\ loc' = [loc EXCEPT ![r].rtodo = rest]
           /\ rpc' = [rpc EXCEPT ![r] = IF rest = {} THEN "done" ELSE "insert"]
           /\ hist' = [hist EXCEPT ![r].rWrites = @ + 1,
                                   ![r].done = @ \cup (IF rest = {} THEN {"ranked"}
                                                       ELSE {})]
    /\ nextId' = nextId + 1
    /\ UNCHANGED <<worldVars, dbAccounts, dbStats, mode, pc, mpc, gpc, outcome,
                   user, configVars, chatVars, notified>>

----------------------------------------------------------------------------
(* fetchAndUpdateAll, lines 60-71, and updateUser, lines 81-95 *)

(* Mutant: the body goes on as soon as one of the two stages is done.      *)
EitherFetched(r) == mpc[r] = "done" \/ rpc[r] = "done"

(* Promise.all([fetchMasteryScores, fetchRanked]) is fulfilled *)
BothFetched(r) == mpc[r] = "done" /\ rpc[r] = "done"

(* Promise.all is fulfilled; updateUser starts updateUserOnGuild for every *)
(* guild whose member cache holds the user (line 85).                      *)
Join(r) ==
    /\ pc[r] = "par"
    /\ BothFetched(r)
    /\ pc' = [pc EXCEPT ![r] = "upd"]
    /\ gpc' = [gpc EXCEPT ![r] =
                 [g \in Guilds |-> IF g \in inGuild THEN "query" ELSE "none"]]
    /\ hist' = [hist EXCEPT ![r].started = @ \cup {"update"}]
    /\ UNCHANGED <<worldVars, dbVars, mode, mpc, rpc, outcome, user, loc,
                   configVars, chatVars, notified>>

(* Mutant: updateUser is not awaited; the call returns at once.           *)
FinishEarly(r) ==
    /\ pc[r] = "upd"
    /\ pc' = [pc EXCEPT ![r] = "returned"]
    /\ outcome' = [outcome EXCEPT ![r] = "ok"]
    /\ hist' = [hist EXCEPT ![r].done = @ \cup {"update"}]
    /\ UNCHANGED <<worldVars, dbVars, mode, mpc, rpc, gpc, user, loc,
                   configVars, chatVars, notified>>

(* Promise.all of the guild reconciliations is fulfilled; the call returns *)
Finish(r) ==
    /\ pc[r] = "upd"
    /\ \A g \in Guilds : gpc[r][g] \in {"none", "done"}
    /\ pc' = [pc EXCEPT ![r] = "returned"]
    /\ outcome' = [outcome EXCEPT ![r] = "ok"]
    /\ hist' = [hist EXCEPT ![r].done = @ \cup {"update"}]
    /\ UNCHANGED <<worldVars, dbVars, mode, mpc, rpc, gpc, user, loc,
                   configVars, chatVars, notified>>

----------------------------------------------------------------------------
(* updateUserOnGuild, lines 101-135 *)

(* Mutant: the removal forgets to ask whether the role is still earned.   *)
RoleOpsRemoveHeld(r, g, allRoles, shouldHave, userHas, existing) ==
    {[run |-> r, guild |-> g, role |-> role, kind |-> "remove"] :
        role \in {x \in allRoles \cap existing : x \in userHas}}
    \cup
    {[run |-> r, guild |-> g, role |-> role, kind |-> "add"] :
        role \in {x \in allRoles \cap existing : x \notin userHas /\ x \in shouldHave}}

(* Mutant: the loop does not ask whether the guild still has the role.     *)
RoleOpsStale(r, g, allRoles, shouldHave, userHas, existing) ==
    {[run |-> r, guild |-> g, role |-> role, kind |-> "remove"] :
        role \in {x \in allRoles : x \in userHas /\ x \notin shouldHave}}
    \cup
    {[run |-> r, guild |-> g, role |-> role, kind |-> "add"] :
        role \in {x \in allRoles : x \notin userHas /\ x \in shouldHave}}

(* The operations the loop of lines 121-134 requests *)
RoleOps(r, g, allRoles, shouldHave, userHas, existing) ==
    {[run |-> r, guild |-> g, role |-> role, kind |-> "remove"] :
        role \in {x \in allRoles \cap existing : x \in userHas /\ x \notin shouldHave}}
    \cup
    {[run |-> r, guild |-> g, role |-> role, kind |-> "add"] :
        role \in {x \in allRoles \cap existing : x \notin userHas /\ x \in shouldHave}}

(* Mutant: the announce flag of the role is not looked at.                 *)
AnnEntryAlways(role) == "query"

(* announcePromotion, line 300: where the call stops first *)
AnnEntry(role) == IF role \notin announceOn THEN "skipped" ELSE "query"

(* Mutant: the member is taken to be in the guild still.                   *)
GuildQueryMemberAssumed(r, g) ==
    /\ gpc[r][g] = "query"
    /\ gpc' = [gpc EXCEPT ![r][g] = "done"]
    /\ IF g \notin registered
       THEN UNCHANGED <<issued, pending, ann, hist>>
       ELSE LET allRoles == serverRoles[g]
                shouldHave == {x \in serverRoles[g] : x \in passes}
                userHas == memberRoles[g]
                ops == RoleOps(r, g, allRoles, shouldHave, userHas, guildRoles[g])
            IN  /\ issued' = issued \cup ops
                /\ pending' = pending \cup ops
                /\ ann' = ann \cup
                      {[run |-> r, guild |-> g, role |-> o.role,
                        st |-> AnnEntry(o.role)] : o \in {x \in ops : x.kind = "add"}}
                /\ hist' = [hist EXCEPT ![r].opsAfterFail = @ \cup
                              (IF \E g2 \in Guilds : gpc[r][g2] = "failed"
                               THEN ops ELSE {}),
                                        ![r].userHas[g] = userHas]
    /\ UNCHANGED <<worldVars, dbVars, mode, pc, mpc, rpc, outcome, user, loc,
                   configVars, memberRoles, notified>>

(* The Server query of line 102 answers and the rest of the function runs. *)
GuildQuery(r, g) ==
    /\ gpc[r][g] = "query"
    /\ gpc' = [gpc EXCEPT ![r][g] = "done"]
    /\ IF g \notin registered \/ g \notin inGuild
       THEN UNCHANGED <<issued, pending, ann, hist>>
       ELSE LET allRoles == serverRoles[g]
                shouldHave == {x \in serverRoles[g] : x \in passes}
                userHas == memberRoles[g]
                ops == RoleOps(r, g, allRoles, shouldHave, userHas, guildRoles[g])
            IN  /\ issued' = issued \cup ops
                /\ pending' = pending \cup ops
                /\ ann' = ann \cup
                      {[run |-> r, guild |-> g, role |-> o.role,
                        st |-> AnnEntry(o.role)] : o \in {x \in ops : x.kind = "add"}}
                /\ hist' = [hist EXCEPT ![r].opsAfterFail = @ \cup
                              (IF \E g2 \in Guilds : gpc[r][g2] = "failed"
                               THEN ops ELSE {}),
                                        ![r].userHas[g] = userHas]
    /\ UNCHANGED <<worldVars, dbVars, mode, pc, mpc, rpc, outcome, user, loc,
                   configVars, memberRoles, notified>>

(* Mutant: a refused operation fails the reconciliation of its guild and  *)
(* the operations still waiting with it are given up.                      *)
SettleOpAborts(o, ok) ==
    /\ o \in pending
    /\ LET rest == {x \in pending : x.run = o.run /\ x.guild = o.guild /\ x # o}
       IN  /\ pending' = IF ok THEN pending \ {o} ELSE pending \ (rest \cup {o})
           /\ issued' = IF ok THEN issued ELSE issued \ rest
    /\ memberRoles' =
         IF ~ok THEN memberRoles
         ELSE IF o.kind = "add"
              THEN [memberRoles EXCEPT ![o.guild] = @ \cup {o.role}]
              ELSE [memberRoles EXCEPT ![o.guild] = @ \ {o.role}]
    /\ hist' = [hist EXCEPT ![o.run].refused = IF ok THEN @ ELSE @ \cup {o}]
    /\ gpc' = IF ok THEN gpc ELSE [gpc EXCEPT ![o.run][o.guild] = "failed"]
    /\ UNCHANGED <<worldVars, dbVars, mode, pc, mpc, rpc, outcome, user, loc,
                   configVars, ann, notified>>

(* The chat platform carries out a requested role operation, or refuses    *)
(* it; nothing awaits the request.                                         *)
SettleOp(o, ok) ==
    /\ o \in pending
    /\ pending' = pending \ {o}
    /\ memberRoles' =
         IF ~ok THEN memberRoles
         ELSE IF o.kind = "add"
              THEN [memberRoles EXCEPT ![o.guild] = @ \cup {o.role}]
              ELSE [memberRoles EXCEPT ![o.guild] = @ \ {o.role}]
    /\ hist' = [hist EXCEPT ![o.run].refused = IF ok THEN @ ELSE @ \cup {o}]
    /\ UNCHANGED <<worldVars, dbVars, mode, pc, mpc, rpc, gpc, outcome, user, loc,
                   configVars, issued, ann, notified>>

(* The member leaves the guild after updateUser has picked the guild       *)
(* (line 85) and before the Server query of line 102 has answered.         *)
Leave(g) ==
    /\ g \in inGuild
    /\ \E r \in Runs : gpc[r][g] = "query"
    /\ inGuild' = inGuild \ {g}
    /\ UNCHANGED <<worldVars, dbVars, runVars, registered, serverRoles, guildRoles,
                   passes, announceOn, channel, chatVars, notified>>

----------------------------------------------------------------------------
(* announcePromotion, lines 299-348 *)

AnnSet(x, st) == (ann \ {x}) \cup {[x EXCEPT !.st = st]}

(* The Server query of line 303 answers; lines 304-310 decide *)
AnnQuery(x) ==
    /\ x \in ann /\ x.st = "query"
    /\ ann' = AnnSet(x, IF channel[x.guild] = "text" THEN "render" ELSE "nochannel")
    /\ UNCHANGED <<worldVars, dbVars, runVars, configVars, memberRoles, issued,
                   pending, notified>>

(* The images are resolved and rendered; the message is sent (line 337) *)
AnnRender(x) ==
    /\ x \in ann /\ x.st = "render"
    /\ ann' = AnnSet(x, "posted")
    /\ UNCHANGED <<worldVars, dbVars, runVars, configVars, memberRoles, issued,
                   pending, notified>>

(* Mutant: a failed announcement takes the role away again.                *)
AnnFailRevokes(x) ==
    /\ x \in ann /\ x.st \in {"query", "render", "posted"}
    /\ ann' = AnnSet(x, "failed." \o x.st)
    /\ memberRoles' = [memberRoles EXCEPT ![x.guild] = @ \ {x.role}]
    /\ UNCHANGED <<worldVars, dbVars, runVars, configVars, issued,
                   pending, notified>>

(* A call of announcePromotion rejects: the Server query (line 303), the  *)
(* image lookups or the rendering (lines 316-334), or the message post     *)
(* that nothing awaits (line 337).  Nothing awaits the promise of          *)
(* announcePromotion itself either.                                        *)
AnnFail(x) ==
    /\ x \in ann /\ x.st \in {"query", "render", "posted"}
    /\ ann' = AnnSet(x, "failed." \o x.st)
    /\ UNCHANGED <<worldVars, dbVars, runVars, configVars, memberRoles, issued,
                   pending, notified>>

----------------------------------------------------------------------------
(* Rejections of awaited calls *)

(* The User query of line 43 rejects: outside the try block *)
LookupFail(r) ==
    /\ pc[r] = "lookup"
    /\ pc' = [pc EXCEPT ![r] = "returned"]
    /\ outcome' = [outcome EXCEPT ![r] = "propagated"]
    /\ hist' = [hist EXCEPT ![r].raised = @ + 1, ![r].failedAt = @ \cup {"lookup"}]
    /\ UNCHANGED <<worldVars, dbVars, mode, mpc, rpc, gpc, user, loc,
                   configVars, chatVars, notified>>

(* Mutant: the sequential stages run outside the try block.               *)
SeqFailUncaught(r) ==
    /\ pc[r] \in AccPcs \cup GpPcs
    /\ pc' = [pc EXCEPT ![r] = "returned"]
    /\ outcome' = [outcome EXCEPT ![r] = "propagated"]
    /\ hist' = [hist EXCEPT ![r].raised = @ + 1, ![r].failedAt = @ \cup {pc[r]}]
    /\ UNCHANGED <<worldVars, dbVars, mode, mpc, rpc, gpc, user, loc,
                   configVars, chatVars, notified>>

(* The call fetchAccounts or fetchGamesPlayed is awaiting rejects; the     *)
(* catch of line 66 reports it.                                            *)
SeqFail(r) ==
    /\ pc[r] \in AccPcs \cup GpPcs
    /\ pc' = [pc EXCEPT ![r] = "returned"]
    /\ outcome' = [outcome EXCEPT ![r] = "caught"]
    /\ hist' = [hist EXCEPT ![r].raised = @ + 1, ![r].reported = @ + 1,
                            ![r].failedAt = @ \cup {pc[r]}]
    /\ UNCHANGED <<worldVars, dbVars, mode, mpc, rpc, gpc, user, loc,
                   configVars, chatVars, notified>>

(* A rejection inside Promise.all (line 60, line 85) while the body of    *)
(* fetchAndUpdateAll awaits it at position p: the first one rejects the    *)
(* awaited promise, and the catch of line 66 runs before anything else     *)
(* does.  A later one finds the promise settled and is dropped.            *)
Rejected(r, p, at) ==
    /\ pc' = [pc EXCEPT ![r] = IF @ = p THEN "returned" ELSE @]
    /\ outcome' = [outcome EXCEPT ![r] = IF pc[r] = p THEN "caught" ELSE @]
    /\ hist' = [hist EXCEPT ![r].raised = @ + 1,
                            ![r].failedAt = @ \cup {at},
                            ![r].reported = IF pc[r] = p THEN @ + 1 ELSE @]

(* Mutant: fetchMasteryScores keeps its error to itself and counts as done.*)
MFailSwallowed(r) ==
    /\ mpc[r] \in MAwaiting
    /\ mpc' = [mpc EXCEPT ![r] = "done"]
    /\ hist' = [hist EXCEPT ![r].raised = @ + 1,
                            ![r].failedAt = @ \cup {"m." \o mpc[r]}]
    /\ UNCHANGED <<worldVars, dbVars, mode, pc, rpc, gpc, outcome, user, loc,
                   configVars, chatVars, notified>>

(* The call fetchMasteryScores is awaiting rejects *)
MFail(r) ==
    /\ mpc[r] \in MAwaiting
    /\ mpc' = [mpc EXCEPT ![r] = "failed"]
    /\ Rejected(r, "par", "m." \o mpc[r])
    /\ UNCHANGED <<worldVars, dbVars, mode, rpc, gpc, user, loc,
                   configVars, chatVars, notified>>

(* The call fetchRanked is awaiting rejects *)
RFail(r) ==
    /\ rpc[r] \in RAwaiting
    /\ rpc' = [rpc EXCEPT ![r] = "failed"]
    /\ Rejected(r, "par", "r." \o rpc[r])
    /\ UNCHANGED <<worldVars, dbVars, mode, mpc, gpc, user, loc,
                   configVars, chatVars, notified>>

(* Mutant: updateUser logs the error of a guild and does not rethrow it.   *)
GuildFailSwallowed(r, g) ==
    /\ gpc[r][g] = "query"
    /\ gpc' = [gpc EXCEPT ![r][g] = "done"]
    /\ hist' = [hist EXCEPT ![r].raised = @ + 1,
                            ![r].failedAt = @ \cup {"guild"}]
    /\ UNCHANGED <<worldVars, dbVars, mode, pc, mpc, rpc, outcome, user, loc,
                   configVars, chatVars, notified>>

(* The Server query of updateUserOnGuild rejects, or a role's test throws: *)
(* both before the loop of line 121.  updateUser rethrows (line 93).       *)
GuildFail(r, g) ==
    /\ gpc[r][g] = "query"
    /\ gpc' = [gpc EXCEPT ![r][g] = "failed"]
    /\ Rejected(r, "upd", "guild")
    /\ UNCHANGED <<worldVars, dbVars, mode, mpc, rpc, user, loc,
                   configVars, chatVars, notified>>

----------------------------------------------------------------------------
(* Initial states *)

InitRuns ==
    /\ mode = [r \in Runs |-> "none"]
    /\ pc = [r \in Runs |-> "idle"]
    /\ mpc = [r \in Runs |-> "new"]
    /\ rpc = [r \in Runs |-> "new"]
    /\ gpc = [r \in Runs |-> [g \in Guilds |-> "none"]]
    /\ outcome = [r \in Runs |-> "none"]
    /\ user = [r \in Runs |-> NoUser]
    /\ loc = [r \in Runs |-> NoLoc]
    /\ hist = [r \in Runs |-> NoHist]
    /\ issued = {}
    /\ pending = {}
    /\ ann = {}
    /\ notified = [a \in Accounts |-> NoNotice]
    /\ changed = FALSE

(* The bot shares no guild with the user. *)
InitNoGuild ==
    /\ inGuild = {}
    /\ registered = {}
    /\ serverRoles = [g \in Guilds |-> {}]
    /\ guildRoles = [g \in Guilds |-> {}]
    /\ memberRoles = [g \in Guilds |-> {}]
    /\ passes = {}
    /\ announceOn = {}
    /\ channel = [g \in Guilds |-> "none"]

AccountRow(a) == [id |-> a, username |-> "n0"]
StatRow(i, c, l, s, g) ==
    [id |-> i, champion_id |-> c, level |-> l, score |-> s, games_played |-> g]
RankRow(i, q, t) == [id |-> i, queue |-> q, tier |-> t]
Mastery(c, p, l) == [championId |-> c, championPoints |-> p, championLevel |-> l]
League(q, t) == [queueType |-> q, tier |-> t]

(* The pipeline with its failures: two linked accounts, each of which may  *)
(* have been renamed or transferred; two guilds with one managed role each.*)
Init ==
    /\ InitRuns
    /\ worldName \in {f \in [Accounts -> {"n0", "n1", "gone"}] : f[2] # "n1"}
    /\ mastery = [a \in Accounts |-> IF worldName[a] = "gone" THEN {}
                                     ELSE {Mastery(1, 1, 1)}]
    /\ league = [a \in Accounts |-> IF worldName[a] = "gone" \/ a = 2 THEN {}
                                    ELSE {League("RANKED_SOLO_5x5", "GOLD")}]
    /\ games = [a \in Accounts |->
                  [c \in Champions |-> IF worldName[a] # "gone" /\ a = 1 /\ c = 1
                                       THEN 1 ELSE 0]]
    /\ dbAccounts = {AccountRow(a) : a \in Accounts}
    /\ dbStats = {StatRow(1, 1, 1, 1, 0)}
    /\ dbRanks = {RankRow(2, "RANKED_SOLO_5x5", "SILVER")}
    /\ nextId = 3
    /\ inGuild = {"g1", "g2"}
    /\ registered \in {{"g1", "g2"}, {"g1"}}
    /\ serverRoles = [g \in Guilds |-> IF g = "g1" THEN {"A"} ELSE {"B"}]
    /\ guildRoles = serverRoles
    /\ memberRoles \in {[g \in Guilds |-> {}],
                        [g \in Guilds |-> IF g = "g1" THEN {"A"} ELSE {}]}
    /\ passes \in {{"A", "B"}, {"B"}}
    /\ announceOn = {"A"}
    /\ channel = [g \in Guilds |-> IF g = "g1" THEN "text" ELSE "none"]

(* The steps of one run that no failure is involved in *)
FetchStep(r) ==
    \/ Lookup(r) \/ AccLoad(r) \/ AccQuery(r) \/ AccDelete(r) \/ AccUpdate(r)
    \/ GpLoad(r) \/ GpQuery(r) \/ GpWrite(r) \/ GpRefetch(r)
    \/ MQuery(r) \/ MDelete(r) \/ MInsert(r) \/ MRefetch(r)
    \/ RQuery(r) \/ RDelete(r) \/ RInsert(r)
    \/ Join(r) \/ Finish(r)

FailStep(r) ==
    \/ LookupFail(r) \/ SeqFail(r) \/ MFail(r) \/ RFail(r)
    \/ \E g \in Guilds : GuildFail(r, g)

ChatStep ==
    \/ \E o \in pending : \E ok \in BOOLEAN : SettleOp(o, ok)
    \/ \E x \in ann : AnnQuery(x) \/ AnnRender(x) \/ AnnFail(x)

Next ==
    \/ \E m \in {"record", "snowflake", "unknown"} : Start(1, m)
    \/ FetchStep(1)
    \/ \E g \in Guilds : GuildQuery(1, g)
    \/ FailStep(1)
    \/ ChatStep
    \/ \E a \in Accounts : \E ok \in BOOLEAN : NotifySettle(a, ok)

Spec == Init /\ [][Next]_vars

----------------------------------------------------------------------------
(* Claims checked under Spec *)

TryBlockFailures ==
    AccPcs \cup GpPcs \cup {"m." \o x : x \in MAwaiting}
    \cup {"r." \o x : x \in RAwaiting} \cup {"guild"}

(* C2, as stated: fetchAndUpdateAll never propagates an error to its       *)
(* caller, whether called with a User record or with a snowflake string.   *)
C2_NeverPropagates == \A r \in Runs : outcome[r] # "propagated"

(* C2, amended: an error the body awaits inside the try block ends the run *)
(* caught and reported once, and is never propagated; the only errors that *)
(* reach the caller are those of the initial User lookup of a call by      *)
(* snowflake (the query failing or finding no user), which are thrown      *)
(* before the try block and are not reported.                              *)
C2_ErrorsInTryAreContained ==
    \A r \in Runs :
        /\ outcome[r] = "propagated" =>
              /\ mode[r] \in {"snowflake", "unknown"}
              /\ hist[r].failedAt = {"lookup"}
              /\ hist[r].reported = 0
        /\ hist[r].failedAt \cap TryBlockFailures # {} =>
              /\ pc[r] = "returned"
              /\ outcome[r] = "caught"
              /\ hist[r].reported = 1
        /\ outcome[r] = "ok" => hist[r].raised = 0

C2_Witness ==
    \E r \in Runs :
        /\ outcome[r] = "caught" /\ hist[r].reported = 1
        /\ "m.insert" \in hist[r].failedAt

(* C3: fetchAccounts completes before fetchGamesPlayed begins,             *)
(* fetchGamesPlayed completes before fetchMasteryScores or fetchRanked     *)
(* begin, and updateUser begins only after both of these have completed.   *)
C3_StageOrder ==
    \A r \in Runs :
        /\ "games" \in hist[r].started =>
              "accounts" \in hist[r].done /\ pc[r] \notin AccPcs
        /\ (mpc[r] # "new" \/ rpc[r] # "new"
               \/ hist[r].started \cap {"mastery", "ranked"} # {}) =>
              "games" \in hist[r].done /\ pc[r] \notin AccPcs \cup GpPcs
        /\ ("update" \in hist[r].started \/ \E g \in Guilds : gpc[r][g] # "none") =>
              /\ {"mastery", "ranked"} \subseteq hist[r].done
              /\ mpc[r] = "done" /\ rpc[r] = "done"

C3_Witness ==
    \E r \in Runs :
        /\ outcome[r] = "ok"
        /\ \E o \in issued : o.run = r
        /\ hist[r].mWrites > 0 /\ hist[r].rWrites > 0

(* C4: an account whose summoner lookup returned not-found is removed from *)
(* the in-memory user.accounts as well, so that fetchGamesPlayed,          *)
(* fetchMasteryScores and fetchRanked of the same run never query the      *)
(* Game-Data Client for it.                                                *)
C4_TransferredAccountDropped ==
    \A r \in Runs : \A a \in hist[r].deleted :
        /\ \A x \in dbAccounts : x.id # a
        /\ \A st \in {"games", "mastery", "ranked"} : <<st, a>> \notin hist[r].queried

(* C5, as stated: after one guild's reconciliation has failed, no role     *)
(* operation of that run is issued for another guild.                      *)
C5_NoOperationAfterGuildFailure ==
    \A r \in Runs : hist[r].opsAfterFail = {}

(* C5, amended: a failing guild reconciliation issues no role operation    *)
(* itself and makes the run end caught and reported once inside            *)
(* fetchAndUpdateAll; the reconciliations of the other guilds were all     *)
(* started before it failed and are not cancelled, so any operation issued *)
(* after the failure belongs to another guild of the same run.             *)
C5_GuildFailureIsContained ==
    \A r \in Runs :
        /\ "guild" \in hist[r].failedAt =>
              /\ pc[r] = "returned" /\ outcome[r] = "caught"
              /\ hist[r].reported = 1
        /\ \A g \in Guilds : gpc[r][g] = "failed" =>
              \A o \in issued : ~(o.run = r /\ o.guild = g)
        /\ \A o \in hist[r].opsAfterFail :
              /\ o.run = r /\ gpc[r][o.guild] = "done"
              /\ \E g \in Guilds \ {o.guild} : gpc[r][g] = "failed"

C5_Witness ==
    \E r \in Runs :
        /\ outcome[r] = "caught"
        /\ hist[r].opsAfterFail # {}

(* The accounts whose summoner lookup returned not-found to run r *)
NotFoundFor(r) ==
    {a \in Accounts : <<"accounts", a>> \in hist[r].queried /\ worldName[a] = "gone"}

(* Run r is awaiting the delete of account a *)
AwaitingDelete(r, a) ==
    pc[r] = "accDelete" /\ user[r].accounts[loc[r].i].id = a

(* C13: an account whose summoner lookup returned not-found has its        *)
(* Account row deleted and exactly one notification attempted for it, be   *)
(* the notification delivered or refused; until the delete has answered    *)
(* (or when the delete itself is rejected) the row is there and nothing    *)
(* has been attempted.  No account is notified about twice, none that was  *)
(* found is notified about, and a run fails only through a rejected call   *)
(* it awaits, never through a refused notification.                        *)
C13_TransferNotifiedOnce ==
    \A r \in {1} : \A a \in Accounts :
        /\ notified[a].attempts <= 1
        /\ notified[a].attempts = 1 <=> a \in hist[r].deleted
        /\ a \in hist[r].deleted =>
              a \in NotFoundFor(r) /\ \A x \in dbAccounts : x.id # a
        /\ a \in NotFoundFor(r) \ hist[r].deleted =>
              /\ AwaitingDelete(r, a) \/ "accDelete" \in hist[r].failedAt
              /\ \E x \in dbAccounts : x.id = a
        /\ outcome[r] = "caught" <=> hist[r].failedAt \cap TryBlockFailures # {}

(* Both accounts were transferred; the notification for the first was     *)
(* refused, the one for the second delivered, and the run ended well.      *)
C13_Witness ==
    /\ outcome[1] = "ok" /\ Finished(1)
    /\ hist[1].deleted = {1, 2} /\ dbAccounts = {}
    /\ notified[1] = [attempts |-> 1, pending |-> 0, failed |-> 1]
    /\ notified[2] = [attempts |-> 1, pending |-> 0, failed |-> 0]

(* C14: when fetchAccounts has completed, an account whose summoner was    *)
(* found under a different name has its stored (and in-memory) username    *)
(* set to the new name and was neither deleted nor notified about; an      *)
(* account found under the same name was not written: its row is the one   *)
(* it was, never updated, never deleted.                                   *)
C14_RenameUpdatesNameOnly ==
    \A r \in {1} :
        "accounts" \in hist[r].done =>
            \A a \in Accounts :
                /\ worldName[a] \notin {"gone", AccountRow(a).username} =>
                      /\ [id |-> a, username |-> worldName[a]] \in dbAccounts
                      /\ \A x \in dbAccounts : x.id = a => x.username = worldName[a]
                      /\ \E i \in 1..Len(user[r].accounts) :
                            user[r].accounts[i] = [id |-> a, username |-> worldName[a]]
                      /\ a \in hist[r].renamed \ hist[r].deleted
                      /\ notified[a].attempts = 0
                /\ worldName[a] = AccountRow(a).username =>
                      /\ AccountRow(a) \in dbAccounts
                      /\ a \notin hist[r].renamed \cup hist[r].deleted
                      /\ notified[a].attempts = 0

(* Account 1 was renamed, account 2 was not *)
C14_Witness ==
    /\ "accounts" \in hist[1].done
    /\ worldName[1] = "n1" /\ worldName[2] = "n0"
    /\ dbAccounts = {[id |-> 1, username |-> "n1"], AccountRow(2)}
    /\ hist[1].renamed = {1} /\ hist[1].deleted = {}

(* C20: when a Game-Data Client call fails in fetchGamesPlayed,            *)
(* fetchMasteryScores or fetchRanked, the stage has written nothing: the   *)
(* Stat rows are those the run holds in user.stats from before the stage,  *)
(* the Rank rows those of the initial state.                               *)
C20_FailedFetchWroteNothing ==
    \A r \in {1} :
        /\ "gpQuery" \in hist[r].failedAt =>
              hist[r].gWrites = 0 /\ dbStats = user[r].stats
        /\ "m.query" \in hist[r].failedAt =>
              hist[r].mWrites = 0 /\ dbStats = user[r].stats
        /\ "r.query" \in hist[r].failedAt =>
              /\ hist[r].rWrites = 0
              /\ dbRanks = {RankRow(2, "RANKED_SOLO_5x5", "SILVER")}

(* Both parallel stages failed on their call for the second account,       *)
(* after fetchGamesPlayed had written.                                     *)
C20_Witness ==
    /\ {"m.query", "r.query"} \subseteq hist[1].failedAt
    /\ {<<"mastery", 1>>, <<"ranked", 1>>} \subseteq hist[1].queried
    /\ <<"mastery", 2>> \notin hist[1].queried /\ <<"ranked", 2>> \notin hist[1].queried
    /\ hist[1].gWrites = 1 /\ hist[1].mWrites = 0 /\ hist[1].rWrites = 0
    /\ dbRanks = {RankRow(2, "RANKED_SOLO_5x5", "SILVER")}

(* The failures of the four fetch stages *)
FetchFailures == TryBlockFailures \ {"guild"}

(* C22: a run in which a fetch stage (fetchAccounts, fetchGamesPlayed,     *)
(* fetchMasteryScores, fetchRanked) has failed never reconciles roles: it  *)
(* starts no updateUserOnGuild, requests no role operation and calls no    *)
(* announcePromotion.                                                      *)
C22_NoReconciliationAfterFetchFailure ==
    \A r \in Runs :
        hist[r].failedAt \cap FetchFailures # {} =>
            /\ "update" \notin hist[r].started
            /\ \A g \in Guilds : gpc[r][g] = "none"
            /\ \A o \in issued : o.run # r
            /\ \A x \in ann : x.run # r

(* fetchRanked failed on an insert after fetchMasteryScores had completed; *)
(* role B was due in the registered guild g2 and was not requested.        *)
C22_Witness ==
    /\ Finished(1) /\ outcome[1] = "caught"
    /\ mpc[1] = "done" /\ "r.insert" \in hist[1].failedAt
    /\ "g2" \in registered /\ "B" \in passes \ memberRoles["g2"]
    /\ issued = {} /\ ann = {}

(* C23, as stated: once fetchAndUpdateAll has returned the run is         *)
(* quiescent, so that nothing of the run happens any more: no persistence  *)
(* write, no role operation, no announcement.                              *)
C23_QuiescentAfterReturn ==
    [][pc[1] = "returned" =>
          dbVars' = dbVars /\ issued' = issued /\ ann' = ann]_vars

(* C23, amended: after the return no stage starts and fetchAccounts and    *)
(* fetchGamesPlayed write nothing.  After a return without failure all     *)
(* stages and guild reconciliations have completed: nothing is written and *)
(* no role operation is requested any more; only what was requested        *)
(* without being awaited goes on (role operations settle, announcePromotion*)
(* calls run).  After a return caused by a failure, what had been started  *)
(* is not cancelled: the other parallel fetch stage may still write its    *)
(* rows, and the other guilds' reconciliations may still request role      *)
(* operations and announcements.                                           *)
C23_OnlyStartedWorkGoesOn ==
    [][pc[1] = "returned" =>
          /\ pc'[1] = "returned" /\ outcome'[1] = outcome[1]
          /\ dbAccounts' = dbAccounts
          /\ mpc[1] \notin MAwaiting => mpc'[1] = mpc[1] /\ dbStats' = dbStats
          /\ rpc[1] \notin RAwaiting => rpc'[1] = rpc[1] /\ dbRanks' = dbRanks
          /\ \A g \in Guilds :
                gpc[1][g] # "query" =>
                    /\ gpc'[1][g] = gpc[1][g]
                    /\ {o \in issued' : o.guild = g} = {o \in issued : o.guild = g}
                    /\ {x.role : x \in {y \in ann' : y.guild = g}}
                          = {x.role : x \in {y \in ann : y.guild = g}}
          /\ outcome[1] = "ok" =>
                /\ Finished(1)
                /\ dbVars' = dbVars /\ issued' = issued
                /\ mpc' = mpc /\ rpc' = rpc /\ gpc' = gpc]_vars

(* The call has returned because fetchMasteryScores failed, while          *)
(* fetchRanked is about to delete the user's Rank rows.                    *)
C23_Witness ==
    /\ pc[1] = "returned" /\ outcome[1] = "caught"
    /\ hist[1].failedAt = {"m.query"}
    /\ rpc[1] = "delete" /\ dbRanks # {}

----------------------------------------------------------------------------
(* SpecRoles: one run for a user with one linked account and unchanged     *)
(* game data, in one registered guild whose Server row, role list and      *)
(* member roles are drawn from all the combinations over three roles.      *)

InitQuietData ==
    /\ worldName = [a \in Accounts |-> "n0"]
    /\ mastery = [a \in Accounts |-> {}]
    /\ league = [a \in Accounts |-> {}]
    /\ games = [a \in Accounts |-> [c \in Champions |-> 0]]
    /\ dbAccounts = {AccountRow(1)}
    /\ dbStats = {}
    /\ dbRanks = {}
    /\ nextId = 1

InitRoles ==
    /\ InitRuns
    /\ InitQuietData
    /\ inGuild = {"g1"}
    /\ registered = {"g1"}
    /\ serverRoles \in {[g \in Guilds |-> IF g = "g1" THEN s ELSE {}] :
                           s \in {{"A", "B", "C"}, {"A", "B"}}}
    /\ guildRoles \in {[g \in Guilds |-> IF g = "g1" THEN s ELSE {}] :
                          s \in {{"A", "B", "C"}, {"B", "C"}}}
    /\ memberRoles \in {[g \in Guilds |-> IF g = "g1" THEN s ELSE {}] :
                           s \in SUBSET RoleIds}
    /\ passes \in SUBSET RoleIds
    /\ announceOn \in {{}, {"C"}}
    /\ channel \in {[g \in Guilds |-> IF g = "g1" THEN c ELSE "none"] :
                       c \in {"text", "none", "gone", "voice"}}

NextRoles ==
    \/ Start(1, "record")
    \/ AccLoad(1) \/ AccQuery(1) \/ GpLoad(1) \/ GpQuery(1) \/ GpRefetch(1)
    \/ MQuery(1) \/ MRefetch(1) \/ RQuery(1) \/ RDelete(1)
    \/ Join(1) \/ Finish(1)
    \/ GuildQuery(1, "g1")
    \/ ChatStep

SpecRoles == InitRoles /\ [][NextRoles]_vars

(* The reconciliations that reached the loop of line 121 *)
Reconciled ==
    {rg \in Runs \X Guilds :
        gpc[rg[1]][rg[2]] = "done" /\ rg[2] \in registered /\ rg[2] \in inGuild}

OpIssued(r, g, role, kind) ==
    [run |-> r, guild |-> g, role |-> role, kind |-> kind] \in issued

(* C1: for a registered server and a member, and every managed role that   *)
(* still exists in the guild, a remove is issued exactly when the member   *)
(* holds the role and its test is false, an add exactly when the member    *)
(* does not hold it and its test is true; no role gets two operations.     *)
C1_RoleDiff ==
    \A rg \in Reconciled :
        LET r == rg[1]
            g == rg[2]
            held == hist[r].userHas[g]
        IN  /\ \A role \in serverRoles[g] \cap guildRoles[g] :
                  /\ OpIssued(r, g, role, "remove") <=>
                        (role \in held /\ role \notin passes)
                  /\ OpIssued(r, g, role, "add") <=>
                        (role \notin held /\ role \in passes)
            /\ \A o1, o2 \in issued :
                  (o1.run = r /\ o2.run = r /\ o1.guild = g /\ o2.guild = g
                     /\ o1.role = o2.role) => o1 = o2

(* allRoles = {A,B,C}, userHas = {A,B}, shouldHave = {B,C}: remove A, add C *)
C1_Witness ==
    /\ <<1, "g1">> \in Reconciled
    /\ serverRoles["g1"] = {"A", "B", "C"} /\ guildRoles["g1"] = {"A", "B", "C"}
    /\ hist[1].userHas["g1"] = {"A", "B"}
    /\ passes = {"B", "C"}
    /\ issued = {[run |-> 1, guild |-> "g1", role |-> "A", kind |-> "remove"],
                 [run |-> 1, guild |-> "g1", role |-> "C", kind |-> "add"]}

(* announcePromotion went past line 310 and set out to announce *)
Attempted(x) == x.st \in {"render", "posted", "failed.render", "failed.posted"}

(* announcePromotion returned at one of lines 300-310 without announcing *)
Declined(x) == x.st \in {"skipped", "nochannel"}

(* C15: an announcement is attempted for (user, role, guild) if and only   *)
(* if an add-role operation was issued for the role in that reconciliation *)
(* and the role has announce set and the server's announcement channel is  *)
(* configured and exists in the guild as a text channel.  Every add has    *)
(* one announcePromotion call, which ends attempted or declined by exactly *)
(* these conditions once its Server query has answered; a removed or       *)
(* untouched role has no call at all.                                      *)
C15_AnnouncedIffAddedAndEnabled ==
    /\ \A x \in ann :
          /\ OpIssued(x.run, x.guild, x.role, "add")
          /\ Attempted(x) => x.role \in announceOn /\ channel[x.guild] = "text"
          /\ Declined(x) => x.role \notin announceOn \/ channel[x.guild] # "text"
          /\ \A y \in ann :
                (y.run = x.run /\ y.guild = x.guild /\ y.role = x.role) => y = x
    /\ \A o \in issued :
          o.kind = "add" =>
              \E x \in ann :
                  /\ x.run = o.run /\ x.guild = o.guild /\ x.role = o.role
                  /\ Attempted(x) \/ Declined(x) \/ x.st \in {"query", "failed.query"}
                  /\ x.st \in {"query", "failed.query"} => x.role \in announceOn

(* C is added and announced; A is removed and B left alone, without a call *)
C15_Witness ==
    /\ issued = {[run |-> 1, guild |-> "g1", role |-> "A", kind |-> "remove"],
                 [run |-> 1, guild |-> "g1", role |-> "C", kind |-> "add"]}
    /\ "B" \in serverRoles["g1"] \cap guildRoles["g1"]
    /\ ann = {[run |-> 1, guild |-> "g1", role |-> "C", st |-> "posted"]}

(* The roles updateUserOnGuild may touch in guild g *)
Managed(g) == serverRoles[g] \cap guildRoles[g]

(* C16: updateUserOnGuild never adds or removes a role that is not one of  *)
(* the server's managed roles, and issues no operation and no announcement *)
(* for a managed role the guild no longer has, whatever its test returns;  *)
(* the member keeps or lacks every such role as before.                    *)
C16_OnlyManagedExistingRoles ==
    /\ \A o \in issued : o.role \in Managed(o.guild)
    /\ \A x \in ann : x.role \in Managed(x.guild)
    /\ \A rg \in Reconciled :
          memberRoles[rg[2]] \ Managed(rg[2])
             = hist[rg[1]].userHas[rg[2]] \ Managed(rg[2])

(* A is managed, held and no longer earned, but the guild has lost it; C   *)
(* is held and not managed; B is earned and added.  Only B is touched.     *)
C16_Witness ==
    /\ <<1, "g1">> \in Reconciled
    /\ serverRoles["g1"] = {"A", "B"} /\ guildRoles["g1"] = {"B", "C"}
    /\ hist[1].userHas["g1"] = {"A", "C"} /\ passes = {"B"}
    /\ issued = {[run |-> 1, guild |-> "g1", role |-> "B", kind |-> "add"]}
    /\ pending = {} /\ memberRoles["g1"] = {"A", "B", "C"}

----------------------------------------------------------------------------
(* SpecRanked: one run for a user with two linked accounts; every account  *)
(* reports, for each queue, nothing or one of ReportedTiers; the user has  *)
(* no Rank row yet or two rows of an earlier refresh.                      *)

LeagueLists ==
    {{}} \cup {{League(q, t)} : q \in Queues, t \in ReportedTiers}
    \cup {{League("RANKED_SOLO_5x5", t1), League("RANKED_FLEX_SR", t2)} :
             t1 \in ReportedTiers, t2 \in ReportedTiers}

InitRanked ==
    /\ InitRuns
    /\ InitNoGuild
    /\ worldName = [a \in Accounts |-> "n0"]
    /\ mastery = [a \in Accounts |-> {}]
    /\ league \in [Accounts -> LeagueLists]
    /\ games = [a \in Accounts |-> [c \in Champions |-> 0]]
    /\ dbAccounts = {AccountRow(a) : a \in Accounts}
    /\ dbStats = {}
    /\ dbRanks \in {{}, {RankRow(1, "RANKED_SOLO_5x5", "SILVER"),
                         RankRow(2, "RANKED_FLEX_SR", "GOLD")}}
    /\ nextId = 3

NextRanked ==
    \/ Start(1, "snowflake")
    \/ Lookup(1) \/ AccQuery(1) \/ GpQuery(1) \/ GpRefetch(1)
    \/ MQuery(1) \/ MRefetch(1) \/ RQuery(1) \/ RDelete(1) \/ RInsert(1)
    \/ Join(1) \/ Finish(1)

SpecRanked == InitRanked /\ [][NextRanked]_vars

(* The tiers some account of the user reports for queue q *)
TiersReported(q) ==
    {e.tier : e \in {x \in UNION {league[a] : a \in Accounts} : x.queueType = q}}

(* The fixed ordering: the configured list, low to high, and every other   *)
(* tier (UNRANKED) below all of it.                                        *)
TierNotAbove(t1, t2) == TierIndexOf(t1) <= TierIndexOf(t2)

(* C8: after fetchRanked completes (no concurrent writer) the user's Rank  *)
(* rows are exactly one row per queue that some account reports, its tier  *)
(* being the highest tier reported for that queue across the accounts; a   *)
(* row of a queue no account reports any more is gone.                     *)
C8_RanksAreHighestReported ==
    \A r \in Runs :
        rpc[r] = "done" =>
            /\ {x.queue : x \in dbRanks} = {q \in Queues : TiersReported(q) # {}}
            /\ \A x, y \in dbRanks : x.queue = y.queue => x = y
            /\ \A x \in dbRanks :
                  /\ x.tier \in TiersReported(x.queue)
                  /\ \A t \in TiersReported(x.queue) : TierNotAbove(t, x.tier)

(* The same with every reported tier taken from the configured list *)
C8_WhenTiersConfigured ==
    (\A q \in Queues : \A t \in TiersReported(q) : TierIndexOf(t) >= 0)
        => C8_RanksAreHighestReported

(* C25: every Rank row fetchRanked has persisted holds a (queue, tier)     *)
(* that getLeaguePositions reported for one of the user's accounts; a      *)
(* reported tier the configured list does not hold (UNRANKED) is never     *)
(* stored as another tier.                                                 *)
C25_RanksWereReported ==
    \A r \in Runs :
        rpc[r] \in {"insert", "done"} =>
            \A x \in dbRanks : x.tier \in TiersReported(x.queue)

----------------------------------------------------------------------------
(* SpecMastery: two runs for the same user, the second started after the   *)
(* first has finished, over unchanged game data.  The user has one or two  *)
(* linked accounts; every account reports champion 1 with any points and   *)
(* level or not at all, and champion 2 or not.                             *)

MasteryLists ==
    LET one == {{}} \cup {{Mastery(1, p, l)} : p \in 1..MaxPoints, l \in 1..MaxLevel}
        two == {{}, {Mastery(2, 1, MaxLevel)}}
    IN  {x \cup y : x \in one, y \in two}

InitMastery ==
    /\ InitRuns
    /\ InitNoGuild
    /\ worldName = [a \in Accounts |-> "n0"]
    /\ mastery \in [Accounts -> MasteryLists]
    /\ league = [a \in Accounts |-> {}]
    /\ games = [a \in Accounts |-> [c \in Champions |-> IF a = 1 /\ c = 1 THEN 1 ELSE 0]]
    /\ dbAccounts \in {{AccountRow(1)}, {AccountRow(1), AccountRow(2)}}
    /\ dbStats \in {{}, {StatRow(3, 1, 1, 1, 1)},
                    {StatRow(3, 1, MaxLevel, 2, 0), StatRow(4, 2, 1, 1, 1)}}
    /\ dbRanks = {}
    /\ nextId = 5

NextMastery ==
    \/ Start(1, "snowflake")
    \/ Finished(1) /\ Start(2, "record")
    \/ \E r \in Runs :
          \/ Lookup(r) \/ AccLoad(r) \/ AccQuery(r)
          \/ GpLoad(r) \/ GpQuery(r) \/ GpWrite(r) \/ GpRefetch(r)
          \/ MQuery(r) \/ MDelete(r) \/ MInsert(r) \/ MRefetch(r)
          \/ RQuery(r) \/ RDelete(r)
          \/ Join(r) \/ Finish(r)

SpecMastery == InitMastery /\ [][NextMastery]_vars

Linked == {x.id : x \in dbAccounts}

(* The mastery entries the linked accounts report for champion c *)
EntriesOf(c) ==
    {<<a, m>> \in Linked \X UNION {mastery[a] : a \in Accounts} :
        m \in mastery[a] /\ m.championId = c}

RECURSIVE SumPoints(_)
SumPoints(entries) ==
    IF entries = {} THEN 0
    ELSE LET e == CHOOSE x \in entries : TRUE
         IN  e[2].championPoints + SumPoints(entries \ {e})

(* C9: after fetchMasteryScores completes (no concurrent writer), every    *)
(* champion that some linked account reports has a Stat row whose score is *)
(* the sum of the champion's points over the accounts and whose level is   *)
(* the highest level over the accounts.                                    *)
C9_MasteryMerged ==
    \A r \in Runs :
        mpc[r] = "done" =>
            \A c \in Champions :
                EntriesOf(c) # {} =>
                    /\ \E x \in dbStats : x.champion_id = c
                    /\ \A x \in dbStats :
                          x.champion_id = c =>
                              /\ x.score = SumPoints(EntriesOf(c))
                              /\ \A e \in EntriesOf(c) : e[2].championLevel <= x.level
                              /\ \E e \in EntriesOf(c) : e[2].championLevel = x.level

(* Two accounts report the champion, the one with more points at the lower *)
(* level; the row holds the sum and the higher level.                      *)
C9_Witness ==
    /\ mpc[1] = "done"
    /\ Linked = {1, 2}
    /\ Mastery(1, 2, 1) \in mastery[1] /\ Mastery(1, 1, 2) \in mastery[2]
    /\ \E x \in dbStats : x.champion_id = 1 /\ x.score = 3 /\ x.level = 2

(* C10: a second fetchMasteryScores over the same mastery data, with no    *)
(* other writer in between, performs no delete and no insert.              *)
C10_SecondRunWritesNothing ==
    (mpc[1] = "done" /\ mpc[2] = "done") => hist[2].mWrites = 0

C10_Witness ==
    /\ mpc[1] = "done" /\ mpc[2] = "done"
    /\ hist[1].mWrites >= 3
    /\ hist[2].mWrites = 0

(* The games_played the user had for champion c in the rows `stats` *)
GamesBefore(stats, c) ==
    IF \E x \in stats : x.champion_id = c
    THEN (CHOOSE x \in stats : x.champion_id = c).games_played
    ELSE 0

(* C11: fetchMasteryScores never changes the games_played of a champion:   *)
(* while it writes and when it has written, every Stat row holds the       *)
(* games_played the champion had in the rows loaded before the stage       *)
(* (user.stats), and the row of a champion that had none holds 0.          *)
C11_MasteryKeepsGamesPlayed ==
    \A r \in Runs :
        mpc[r] \in {"delete", "insert", "refetch"} =>
            \A x \in dbStats :
                x.games_played = GamesBefore(user[r].stats, x.champion_id)

(* The row of champion 1 was replaced (score 3 is the sum over two         *)
(* accounts) and kept its game count; champion 2 got its first row.        *)
C11_Witness ==
    /\ mpc[1] = "refetch"
    /\ \E x \in dbStats : /\ x.champion_id = 1 /\ x.score = 3
                           /\ x.id \notin {y.id : y \in user[1].stats}
                           /\ x.games_played = 1
    /\ \E x \in dbStats : /\ x.champion_id = 2 /\ x.games_played = 0
                           /\ \A y \in user[1].stats : y.champion_id # 2

(* C21: fetchMasteryScores removes all old mastery, so that none of an     *)
(* account the user no longer has persists: after it completes every Stat  *)
(* row holds the sum and the maximum over the linked accounts' entries for *)
(* its champion, which for a champion none of them reports is score 0 and  *)
(* level 0.                                                                *)
C21_StaleMasteryRemoved ==
    \A r \in Runs :
        mpc[r] = "done" =>
            \A x \in dbStats :
                IF EntriesOf(x.champion_id) = {}
                THEN x.score = 0 /\ x.level = 0
                ELSE /\ x.score = SumPoints(EntriesOf(x.champion_id))
                     /\ \A e \in EntriesOf(x.champion_id) : e[2].championLevel <= x.level
                     /\ \E e \in EntriesOf(x.champion_id) : e[2].championLevel = x.level

----------------------------------------------------------------------------
(* SpecRace: two runs for the same user, the second started at any time    *)
(* after the first, while the game data moves on: the account plays one    *)
(* more ranked game of champion 1 and is promoted one tier.                *)

(* The game-data service moves on. *)
Advance ==
    /\ games[1][1] < MaxGames
    /\ games' = [games EXCEPT ![1][1] = @ + 1]
    /\ league' = [league EXCEPT ![1] =
                    {League(e.queueType, TierAt(TierIndexOf(e.tier) + 1)) : e \in @}]
    /\ changed' = TRUE
    /\ UNCHANGED <<worldName, mastery, dbVars, runVars, configVars, chatVars,
                   notified>>

InitRace ==
    /\ InitRuns
    /\ InitNoGuild
    /\ worldName = [a \in Accounts |-> "n0"]
    /\ mastery = [a \in Accounts |-> IF a = 1 THEN {Mastery(1, 2, 1)} ELSE {}]
    /\ league = [a \in Accounts |-> IF a = 1 THEN {League("RANKED_SOLO_5x5", "SILVER")}
                                    ELSE {}]
    /\ games = [a \in Accounts |-> [c \in Champions |-> IF a = 1 /\ c = 1 THEN 1 ELSE 0]]
    /\ dbAccounts = {AccountRow(1)}
    /\ \/ dbStats = {} /\ dbRanks = {}
       \/ /\ dbStats = {StatRow(2, 1, 1, 1, 1)}
          /\ dbRanks = {RankRow(3, "RANKED_SOLO_5x5", "SILVER")}
    /\ nextId = 4

NextRace ==
    \/ Start(1, "snowflake")
    \/ pc[1] # "idle" /\ Start(2, "record")
    \/ Advance
    \/ \E r \in Runs :
          \/ Lookup(r) \/ AccLoad(r) \/ AccQuery(r)
          \/ GpLoad(r) \/ GpQuery(r) \/ GpWrite(r) \/ GpRefetch(r)
          \/ MQuery(r) \/ MDelete(r) \/ MInsert(r) \/ MRefetch(r)
          \/ RQuery(r) \/ RDelete(r) \/ RInsert(r)
          \/ Join(r) \/ Finish(r)

SpecRace == InitRace /\ [][NextRace]_vars

(* C6: at most one persisted Stat row per (user, champion) in every        *)
(* reachable state, also while runs for the same user overlap.             *)
C6_OneStatRowPerChampion ==
    \A x, y \in dbStats : x.champion_id = y.champion_id => x = y

(* The rows a run leaves behind when nothing else writes: what it fetched. *)
RanksFetchedBy(r) ==
    {<<q, TierAt(loc[r].tiers[q])>> : q \in DOMAIN loc[r].tiers}
StatsFetchedBy(r) ==
    {<<c, loc[r].scores[c].level, loc[r].scores[c].score, loc[r].gamesPlayed[c]>> :
        c \in DOMAIN loc[r].scores}

BothFinished == Finished(1) /\ Finished(2)

(* C7 (the serial side): when the second run starts after the first has    *)
(* finished, the persisted Rank and Stat rows at the end are those of the  *)
(* second run's fetch, one row each; a final state that differs from this  *)
(* arises only from overlapping runs.                                      *)
C7_SerialRunsKeepTheLastFetch ==
    (BothFinished /\ ~hist[2].overlapped) =>
        /\ {<<x.queue, x.tier>> : x \in dbRanks} = RanksFetchedBy(2)
        /\ {<<x.champion_id, x.level, x.score, x.games_played>> : x \in dbStats}
              = StatsFetchedBy(2)
        /\ Cardinality(dbRanks) = 1 /\ Cardinality(dbStats) = 1

(* C7 (the lost update): the runs overlapped, the second run fetched the   *)
(* promotion and the new game count, and at the end the persisted rows     *)
(* hold the first run's older tier and game count.                         *)
C7_LostUpdate ==
    /\ BothFinished /\ hist[2].overlapped
    /\ RanksFetchedBy(1) = {<<"RANKED_SOLO_5x5", "SILVER">>}
    /\ RanksFetchedBy(2) = {<<"RANKED_SOLO_5x5", "GOLD">>}
    /\ {<<x.queue, x.tier>> : x \in dbRanks} = {<<"RANKED_SOLO_5x5", "SILVER">>}
    /\ loc[1].gamesPlayed[1] = 1 /\ loc[2].gamesPlayed[1] = 2
    /\ \A x \in dbStats : x.games_played = 1

----------------------------------------------------------------------------
(* SpecGames: one run for a user with one or two linked accounts whose     *)
(* ranked game lists hold up to MaxGames games of each champion; the user  *)
(* has no Stat row, a row for champion 1, or rows for both champions.      *)

InitGames ==
    /\ InitRuns
    /\ InitNoGuild
    /\ worldName = [a \in Accounts |-> "n0"]
    /\ mastery = [a \in Accounts |-> {}]
    /\ league = [a \in Accounts |-> {}]
    /\ games \in [Accounts -> [Champions -> 0..MaxGames]]
    /\ dbAccounts \in {{AccountRow(1)}, {AccountRow(1), AccountRow(2)}}
    /\ dbStats \in {{}, {StatRow(3, 1, 1, 1, 1)},
                    {StatRow(3, 1, 2, 2, 2), StatRow(4, 2, 1, 1, 1)}}
    /\ dbRanks = {}
    /\ nextId = 5

NextGames ==
    \/ \E m \in {"record", "snowflake"} : Start(1, m)
    \/ Lookup(1) \/ AccLoad(1) \/ AccQuery(1)
    \/ GpLoad(1) \/ GpQuery(1) \/ GpWrite(1) \/ GpRefetch(1)
    \/ MQuery(1) \/ MRefetch(1) \/ RQuery(1) \/ RDelete(1)
    \/ Join(1) \/ Finish(1)

SpecGames == InitGames /\ [][NextGames]_vars

(* The ranked games of champion c over the linked accounts *)
Tally(c) ==
    LET n(a) == IF a \in Linked THEN games[a][c] ELSE 0
    IN  n(1) + n(2)

(* C12: when fetchGamesPlayed has written (no concurrent writer), every    *)
(* champion of the tally has exactly one Stat row, holding the tallied     *)
(* count; a row that existed is the same row with its level and score, and *)
(* was written only if its count differed; a missing row was inserted with *)
(* level 0 and score 0.                                                    *)
C12_GamesPlayedWritten ==
    \A r \in Runs :
        pc[r] = "gpRefetch" =>
            LET before == user[r].stats
                tallied == {c \in Champions : Tally(c) > 0}
                differs == {c \in tallied :
                              \A o \in before :
                                  o.champion_id = c => o.games_played # Tally(c)}
            IN  /\ \A c \in tallied :
                      \E x \in dbStats :
                          /\ x.champion_id = c /\ x.games_played = Tally(c)
                          /\ \A y \in dbStats : y.champion_id = c => y = x
                          /\ IF \E o \in before : o.champion_id = c
                             THEN \E o \in before :
                                     /\ o.id = x.id /\ o.champion_id = c
                                     /\ o.level = x.level /\ o.score = x.score
                             ELSE x.level = 0 /\ x.score = 0
                /\ \A o \in before : o.champion_id \notin differs => o \in dbStats
                /\ hist[r].gWrites = Cardinality(differs)

(* Two accounts with one game of champion 1 each and one game of champion  *)
(* 2: the row of champion 1 goes from 1 to 2 games and keeps its level and *)
(* score, champion 2 gets a row with level 0, score 0.                     *)
C12_Witness ==
    /\ pc[1] = "gpRefetch"
    /\ Linked = {1, 2}
    /\ games[1][1] = 1 /\ games[2][1] = 1 /\ Tally(2) = 1
    /\ user[1].stats = {StatRow(3, 1, 1, 1, 1)}
    /\ dbStats = {StatRow(3, 1, 1, 1, 2), StatRow(5, 2, 0, 0, 1)}
    /\ hist[1].gWrites = 2

----------------------------------------------------------------------------
(* SpecGuilds: one run over unchanged game data for a user in two guilds,  *)
(* each registered or not; the member may leave a guild while its          *)
(* reconciliation is under way, role operations may be refused, and        *)
(* announcements and Server queries may fail.                              *)

InitGuilds ==
    /\ InitRuns
    /\ InitQuietData
    /\ inGuild = {"g1", "g2"}
    /\ registered \in SUBSET Guilds
    /\ serverRoles = [g \in Guilds |-> IF g = "g1" THEN {"A", "B"} ELSE {"C"}]
    /\ guildRoles = serverRoles
    /\ memberRoles \in {[g \in Guilds |-> {}],
                        [g \in Guilds |-> IF g = "g1" THEN {"A"} ELSE {}]}
    /\ passes \in {{"B", "C"}, {"A", "B", "C"}}
    /\ announceOn = {"B"}
    /\ channel = [g \in Guilds |-> "text"]

NextGuilds ==
    \/ Start(1, "record")
    \/ AccLoad(1) \/ AccQuery(1) \/ GpLoad(1) \/ GpQuery(1) \/ GpRefetch(1)
    \/ MQuery(1) \/ MRefetch(1) \/ RQuery(1) \/ RDelete(1)
    \/ Join(1) \/ Finish(1)
    \/ \E g \in Guilds : GuildQuery(1, g) \/ GuildFail(1, g) \/ Leave(g)
    \/ ChatStep

SpecGuilds == InitGuilds /\ [][NextGuilds]_vars

(* What run r requested in guild g *)
OpsIn(r, g) == {o \in issued : o.run = r /\ o.guild = g}
AnnIn(r, g) == {x \in ann : x.run = r /\ x.guild = g}

(* C17: updateUserOnGuild does nothing, and raises nothing, when the guild *)
(* has no Server record or the user is not a member of the guild (any      *)
(* more): no role operation, no announcement, and a run all of whose       *)
(* guilds answered ends well.                                              *)
C17_UnregisteredOrNotMemberIsNoOp ==
    \A r \in Runs :
        /\ \A g \in Guilds :
              (gpc[r][g] = "done" /\ (g \notin registered \/ g \notin inGuild)) =>
                  OpsIn(r, g) = {} /\ AnnIn(r, g) = {}
        /\ (pc[r] = "returned" /\ \A g \in Guilds : gpc[r][g] = "done") =>
              outcome[r] = "ok" /\ hist[r].raised = 0

(* g1 has no Server record, the member has left g2 in which role C was due *)
C17_Witness ==
    /\ outcome[1] = "ok"
    /\ registered = {"g2"} /\ inGuild = {"g1"}
    /\ "C" \in passes \ memberRoles["g2"]
    /\ gpc[1] = [g \in Guilds |-> "done"]
    /\ issued = {} /\ ann = {}

(* Every operation the role diff of guild g calls for was requested *)
DiffIssued(r, g) ==
    \A role \in Managed(g) :
        /\ (role \in hist[r].userHas[g] /\ role \notin passes) =>
              OpIssued(r, g, role, "remove")
        /\ (role \notin hist[r].userHas[g] /\ role \in passes) =>
              OpIssued(r, g, role, "add")

(* The chat platform carried the operation out *)
CarriedOut(o) == o \in issued /\ o \notin pending /\ o \notin hist[o.run].refused

(* C18: a refused add-role or remove-role operation neither keeps the      *)
(* other operations of the guild from being requested (and carried out)    *)
(* nor fails the reconciliation.                                           *)
C18_RefusedOperationIsContained ==
    \A r \in Runs : \A o \in hist[r].refused :
        /\ o \in issued
        /\ gpc[r][o.guild] = "done"
        /\ DiffIssued(r, o.guild)
        /\ \A o2 \in OpsIn(r, o.guild) :
              CarriedOut(o2) => (o2.kind = "add" <=> o2.role \in memberRoles[o2.guild])
        /\ (pc[r] = "returned" /\ \A g \in Guilds : gpc[r][g] = "done") =>
              outcome[r] = "ok"

(* The removal of A was refused; B was added all the same, the run ended   *)
(* well.                                                                   *)
C18_Witness ==
    /\ outcome[1] = "ok"
    /\ hist[1].refused = {[run |-> 1, guild |-> "g1", role |-> "A", kind |-> "remove"]}
    /\ CarriedOut([run |-> 1, guild |-> "g1", role |-> "B", kind |-> "add"])
    /\ memberRoles["g1"] = {"A", "B"}

(* C19: a failure in announcePromotion (Server query, images, rendering,   *)
(* message post) is swallowed: the role whose grant it announced stays     *)
(* granted, the operations of every reconciled guild were requested all    *)
(* the same, the guild's reconciliation has not failed, and a run fails    *)
(* only if the reconciliation of some guild itself failed.                 *)
C19_AnnouncementFailureIsSwallowed ==
    \A x \in ann :
        x.st \in {"failed.query", "failed.render", "failed.posted"} =>
            LET o == [run |-> x.run, guild |-> x.guild, role |-> x.role, kind |-> "add"]
            IN  /\ o \in issued
                /\ CarriedOut(o) => x.role \in memberRoles[x.guild]
                /\ gpc[x.run][x.guild] = "done"
                /\ \A rg \in Reconciled : rg[1] = x.run => DiffIssued(rg[1], rg[2])
                /\ outcome[x.run] = "caught" =>
                      \E g \in Guilds : gpc[x.run][g] = "failed"
                /\ (pc[x.run] = "returned" /\ \A g \in Guilds : gpc[x.run][g] = "done")
                      => outcome[x.run] = "ok" /\ hist[x.run].raised = 0

(* The rendering of B's announcement failed; B stays granted, C was added  *)
(* in the other guild, the run ended well.                                 *)
C19_Witness ==
    /\ outcome[1] = "ok"
    /\ [run |-> 1, guild |-> "g1", role |-> "B", st |-> "failed.render"] \in ann
    /\ CarriedOut([run |-> 1, guild |-> "g1", role |-> "B", kind |-> "add"])
    /\ "B" \in memberRoles["g1"]
    /\ CarriedOut([run |-> 1, guild |-> "g2", role |-> "C", kind |-> "add"])
    /\ "C" \in memberRoles["g2"]

----------------------------------------------------------------------------
(* SpecPromo: two runs for the same user, the second started at any time   *)
(* after the first, over unchanged game data; the user has come to earn    *)
(* role C of the registered guild g1, which announces it.  The member may  *)
(* hold the managed role A already.                                        *)

InitPromo ==
    /\ InitRuns
    /\ InitQuietData
    /\ inGuild = {"g1"}
    /\ registered = {"g1"}
    /\ serverRoles = [g \in Guilds |-> IF g = "g1" THEN {"A", "C"} ELSE {}]
    /\ guildRoles = serverRoles
    /\ memberRoles \in {[g \in Guilds |-> {}],
                        [g \in Guilds |-> IF g = "g1" THEN {"A"} ELSE {}]}
    /\ passes = {"A", "C"}
    /\ announceOn = {"C"}
    /\ channel = [g \in Guilds |-> IF g = "g1" THEN "text" ELSE "none"]

NextPromo ==
    \/ Start(1, "record")
    \/ pc[1] # "idle" /\ Start(2, "record")
    \/ \E r \in Runs :
          \/ AccLoad(r) \/ AccQuery(r) \/ GpLoad(r) \/ GpQuery(r) \/ GpRefetch(r)
          \/ MQuery(r) \/ MRefetch(r) \/ RQuery(r) \/ RDelete(r)
          \/ Join(r) \/ Finish(r)
          \/ GuildQuery(r, "g1")
    \/ ChatStep

SpecPromo == InitPromo /\ [][NextPromo]_vars

(* C24: over possibly overlapping runs an add-role operation and its       *)
(* promotion announcement are issued at most once per transition of the    *)
(* member from not holding the role to holding it.  Here no role is ever   *)
(* taken away, so each role is gained at most once: no two runs request    *)
(* the same add, and no two runs announce the same promotion.              *)
C24_PromotionAnnouncedOnce ==
    /\ \A o1, o2 \in issued :
          (o1.kind = "add" /\ o2.kind = "add" /\ o1.guild = o2.guild
             /\ o1.role = o2.role) => o1.run = o2.run
    /\ \A x, y \in ann :
          (x.guild = y.guild /\ x.role = y.role) => x.run = y.run

====
